---- MODULE Spec2Model ----
(***************************************************************************)
(* Run execution engine of ModelForge (apps/api server): the execute /     *)
(* cancel / cancel-model / review handlers, the detached scheduler body    *)
(* with one sequential worker per candidate model, the in-memory           *)
(* cancellation registry, the run_results table and the events handed to   *)
(* emitSSE.  The bus keeps no history; the model records, per worker, the  *)
(* events that worker published, per run the run-level event published     *)
(* last, and per (run, model) how many model_cancelled the cancel-model    *)
(* handler published.                                                      *)
(*                                                                         *)
(* Granularity: Node runs one macrotask at a time.  An HTTP handler is one *)
(* action.  The setImmediate callback is one action.  A worker is          *)
(* suspended only inside callModel / callModelWithStreaming (candidate     *)
(* call) or callModel (judge call); the continuation that runs when such a *)
(* call settles is one action and runs up to the next suspension point,    *)
(* the tail of the scheduler body included when the last worker settles.   *)
(***************************************************************************)
EXTENDS Integers, Sequences, FiniteSets, TLC

\* ---------------------------------------------------------------- bounds
MaxExec == 2        \* accepted execute calls explored
MaxRows == 3        \* rows inserted into run_results
MaxExtras == 1      \* stream deltas published + cancel-model calls accepted + results reviewed

\* ---------------------------------------------------------------- data
RunIds == {"r1", "r2"}
OneRun == {"r1"}                                \* runs created under Spec
Cand == {"m1", "m2"}
JudgeModel == "mj"
ModelIdLists == { <<"m1">>, <<"m1", "m2">> }    \* modelIds a run is created with
AllModels == Cand \cup {JudgeModel}
Problems == << [id |-> "p1", type |-> "text"], [id |-> "p2", type |-> "html"] >>
ExecIds == 1..MaxExec
RowKeys == ExecIds \X Cand \X (1..Len(Problems))

\* JSON / SQL values that can land in run_results.score
Null == [t |-> "null", v |-> 0]
Undefined == [t |-> "undefined", v |-> 0]
Num(n) == [t |-> "num", v |-> n]
Str == [t |-> "str", v |-> 0]
Truthy(x) == (x.t = "str") \/ (x.t = "num" /\ x.v # 0)

NoRow == [status |-> "none", score |-> Null, output |-> FALSE,
          cancelled_at |-> FALSE, judged_by |-> "null"]
NoRun == [status |-> "none", stream |-> FALSE, model_ids |-> <<>>,
          cancelled_at |-> FALSE, cancelled_by |-> "null"]
NoExec == [run |-> "none", phase |-> "unused", runAborted |-> FALSE,
           models |-> <<>>, problems |-> <<>>, stream |-> FALSE]
NoWorker == [pc |-> "unused", idx |-> 0, aborted |-> FALSE, abortedAt |-> 0, log |-> <<>>]
NoEvent == [type |-> "none", status |-> "none", exec |-> 0]
NoCall == [attempt |-> 0, sleeping |-> FALSE]
maxRetries == 3
baseDelay == 1000

\* error.message of a failed attempt: a string of characters, or undefined
Msg(text) == [defined |-> TRUE, text |-> text]
NoMessage == [defined |-> FALSE, text |-> <<>>]
Messages ==
  { Msg(<<"4", "0", "1">>), Msg(<<"e", "4", "0", "3">>), Msg(<<"4", "0", "4", "s">>),
    Msg(<<"5", "0", "0">>), Msg(<<"4", "0", "0", "1">>), Msg(<<"4", "2", "9">>), NoMessage }

\* before any judge step
NoVerdict ==
  [given |-> FALSE, pass |-> FALSE, reasoning |-> "",
   score |-> Null, status |-> "pending", event |-> "none",
   resp |-> [text |-> "",
             parsed |-> [kind |-> "SyntaxError", verdict |-> "undefined",
                         reasoning |-> "", score |-> Undefined]]]

\* callModelWithStreaming before its first line: `accumulated` of the attempt
\* in progress, the delta of every candidate_token published by onToken, and,
\* once the call has returned, the output stored and the text of candidate_done
NoStream == [accumulated |-> "", chunks |-> 0, deltas |-> <<>>,
             done |-> FALSE, output |-> "", text |-> ""]

\* withRetry before its first attempt has settled
NoRetry == [attempt |-> 0, errors |-> <<>>, delays |-> <<>>, sleeping |-> FALSE,
            outcome |-> "pending", thrown |-> NoMessage]
SubIds == {"s1"}
NoSub == [run |-> "none", open |-> FALSE, chan |-> <<>>]
ProblemSet == "ps1"
ProblemIds == {Problems[k].id : k \in 1..Len(Problems)}

\* created_at of the problems when the clock read by now() grew from one
\* insert into problems to the next; Problems lists the rows in the order of
\* their inserts, which is the order of their rowids
InsertionTimes == [pid \in ProblemIds |-> CHOOSE k \in 1..Len(Problems) : Problems[k].id = pid]
NoReject == [op |-> "none", run |-> "none", model |-> "none", code |-> 0]

\* ---------------------------------------------------------------- state
VARIABLES
  runs,                \* runs table: status, stream, cancelled_at, cancelled_by
  modelRows,           \* ids present in the models table
  rows,                \* run_results table, a row named by (execution, model, problem index)
  execs,               \* one record per accepted execute: its closure (run, models, problems, runController)
  workers,             \* per execution and model: position of the model processor, its modelController,
                       \* and the events it has passed to emitProgress, in publish order
  runCancellations,    \* registry map run id -> execution whose runController is registered (0: no entry)
  modelCancellations,  \* registry map (run id, model id) -> execution whose modelController is registered
  runEvents,           \* per run: the run_status / run_cancelled event published last
  modelEvents,         \* per run and model: model_cancelled events published by the cancel-model handler
  calls,               \* per execution and model: attempt number and retry sleep of the withRetry call in flight
  subscribers,         \* SSE subscribers: the run they are attached to and what was written to their response
  problemSetRows,      \* ids present in the problem_sets table
  problemRows,         \* ids present in the problems table
  rejected,            \* the request answered last with an error reply
  retry,               \* one call of withRetry seen from inside: its failures, its delays, its outcome
  problemCreatedAt,    \* created_at of each row of the problems table
  streamed,            \* one call of callModelWithStreaming seen from inside
  judged               \* the judge step seen from inside: the response it was given and what it stored and published

vars == <<runs, modelRows, rows, execs, workers, runCancellations,
          modelCancellations, runEvents, modelEvents, calls, subscribers,
          problemSetRows, problemRows, rejected, retry, problemCreatedAt, streamed,
          judged>>

\* what no step of the run engine writes
untouched == <<modelRows, problemSetRows, problemRows, rejected, retry,
               problemCreatedAt, streamed, judged>>

SeqToSet(s) == {s[i] : i \in 1..Len(s)}
ExecModels(e) == SeqToSet(execs[e].models)
RowRun(key) == execs[key[1]].run
Terminal == {"completed", "cancelled", "error"}

\* ---------------------------------------------------------------- registry
createRunCancellation(rc, r, e) == [rc EXCEPT ![r] = e]
createModelCancellation(mc, r, m, e) == [mc EXCEPT ![r][m] = e]
cleanupRun(rc, r) == [rc EXCEPT ![r] = 0]
cleanupModels(mc, r) == [mc EXCEPT ![r] = [m \in Cand |-> 0]]

\* ---------------------------------------------------------------- event bus
PublishRun(re, r, type, status, e) ==
  [re EXCEPT ![r] = [type |-> type, status |-> status, exec |-> e]]

\* an event as written to a subscriber's response
Ev(type, m, k, status) == [type |-> type, model |-> m, problem |-> k, status |-> status]
RunStatus(status) == Ev("run_status", "none", 0, status)

\* emitSSE writing to the subscribers of every run
emitSSEAll(subs, r, evs) ==
  [s \in SubIds |->
     IF subs[s].open THEN [subs[s] EXCEPT !.chan = @ \o evs] ELSE subs[s]]

\* emitSSE: the events are written to every subscriber of the run
emitSSE(subs, r, evs) ==
  [s \in SubIds |->
     IF subs[s].open /\ subs[s].run = r
     THEN [subs[s] EXCEPT !.chan = @ \o evs]
     ELSE subs[s]]

\* emitProgress putting the event ahead of the events published before
EmitFront(S, r, m, type, k, e) ==
  [S EXCEPT !.wk[e][m].log = <<[type |-> type, problem |-> k]>> \o @,
            !.out = <<Ev(type, m, k, "none")>> \o @]

\* emitProgress of worker (e, m); `out` collects what the step hands to emitSSE
Emit(S, r, m, type, k, e) ==
  [S EXCEPT !.wk[e][m].log = Append(@, [type |-> type, problem |-> k]),
            !.out = Append(@, Ev(type, m, k, "none"))]

\* ---------------------------------------------------------------- worker
\* UPDATE run_results ... WHERE id = rrId: nothing changes when the row is gone
UpdateRow(S, key, new) ==
  IF S.rows[key].status = "none" THEN S ELSE [S EXCEPT !.rows[key] = new]

\* UPDATE runs SET status = ? WHERE id = ?: nothing changes when the row is gone
UpdateRun(rs, r, status) ==
  IF rs[r].status = "none" THEN rs ELSE [rs EXCEPT ![r].status = status]

MarkCancelled(S, key) ==
  UpdateRow(S, key, [S.rows[key] EXCEPT !.status = "cancelled", !.cancelled_at = TRUE])

\* a database that does not enforce its foreign keys
ForeignKeysOff(r, pid) == TRUE

\* FOREIGN KEY (run_id) REFERENCES runs(id), FOREIGN KEY (problem_id)
\* REFERENCES problems(id): the database enforces them on an insert into
\* run_results, the handle being opened with the driver's defaults.
ForeignKeysHold(r, pid) == runs[r].status # "none" /\ pid \in problemRows

\* the initial insert with status pending for every problem type
InsertRowPending(S, key, type) ==
  [S EXCEPT !.rows[key] = [NoRow EXCEPT !.status = "pending"],
            !.over = @ \/ Cardinality({kk \in RowKeys : S.rows[kk].status # "none"}) >= MaxRows]

\* `over` marks a continuation that needs more rows than MaxRows; it is not explored.
InsertRow(S, key, type) ==
  [S EXCEPT !.rows[key] = [NoRow EXCEPT !.status = IF type = "html" THEN "manual" ELSE "pending"],
            !.over = @ \/ Cardinality({kk \in RowKeys : S.rows[kk].status # "none"}) >= MaxRows]

LoopCancelled(S, e, m) == execs[e].runAborted \/ S.wk[e][m].aborted

\* One pass of `for (const problem of problems)` from index k up to the first
\* await of processModelForProblem (the candidate call), or out of the loop.
RECURSIVE LoopHead(_, _, _, _)
LoopHead(S, e, m, k) ==
  IF k > Len(execs[e].problems) \/ LoopCancelled(S, e, m)
  THEN [S EXCEPT !.wk[e][m].pc = "finished"]
  ELSE IF ~ForeignKeysHold(execs[e].run, execs[e].problems[k].id)
  THEN LoopHead(S, e, m, k + 1)    \* the insert throws; the loop's catch goes on
  ELSE LET r == execs[e].run
           key == <<e, m, k>>
           S1 == InsertRow(S, key, execs[e].problems[k].type)
       IN IF S1.wk[e][m].aborted
          THEN LoopHead(MarkCancelled(S1, key), e, m, k + 1)
          ELSE LET S2 == Emit(S1, r, m, "model_started", k, e)
                   S3 == IF execs[e].stream
                         THEN Emit(S2, r, m, "model_streaming_started", k, e)
                         ELSE S2
               IN [S3 EXCEPT !.wk[e][m].pc = "candidate", !.wk[e][m].idx = k]

Bundle == [rows |-> rows, wk |-> workers, over |-> FALSE, out |-> <<>>]

AllSettled(S, e) == \A m \in ExecModels(e) : S.wk[e][m].pc = "finished"

\* Tail of the scheduler body after Promise.allSettled.
Finalize(e) ==
  LET r == execs[e].run
      st == IF execs[e].runAborted THEN "cancelled" ELSE "completed"
  IN /\ runs' = UpdateRun(runs, r, st)
     /\ runEvents' = PublishRun(runEvents, r, "run_status", st, e)
     /\ runCancellations' = cleanupRun(runCancellations, r)
     /\ modelCancellations' = cleanupModels(modelCancellations, r)
     /\ execs' = [execs EXCEPT ![e].phase = "done"]

Commit(S, e) ==
  /\ ~S.over
  /\ rows' = S.rows
  /\ workers' = S.wk
  /\ IF AllSettled(S, e)
     THEN /\ Finalize(e)
          /\ subscribers' = emitSSE(subscribers, execs[e].run,
                                    Append(S.out, RunStatus(runEvents'[execs[e].run].status)))
     ELSE /\ UNCHANGED <<runs, runEvents, runCancellations, modelCancellations, execs>>
          /\ subscribers' = emitSSE(subscribers, execs[e].run, S.out)
  /\ UNCHANGED <<untouched, modelEvents>>

\* ---------------------------------------------------------------- Init
Init ==
  /\ runs = [r \in RunIds |-> NoRun]
  /\ modelRows = AllModels
  /\ rows = [key \in RowKeys |-> NoRow]
  /\ execs = [e \in ExecIds |-> NoExec]
  /\ workers = [e \in ExecIds |-> [m \in Cand |-> NoWorker]]
  /\ runCancellations = [r \in RunIds |-> 0]
  /\ modelCancellations = [r \in RunIds |-> [m \in Cand |-> 0]]
  /\ runEvents = [r \in RunIds |-> NoEvent]
  /\ modelEvents = [r \in RunIds |-> [m \in Cand |-> 0]]
  /\ calls = [e \in ExecIds |-> [m \in Cand |-> NoCall]]
  /\ subscribers = [s \in SubIds |-> NoSub]
  /\ problemSetRows = {ProblemSet}
  /\ problemRows = ProblemIds
  /\ rejected = NoReject
  /\ retry = NoRetry
  /\ problemCreatedAt = InsertionTimes
  /\ streamed = NoStream
  /\ judged = NoVerdict

\* ---------------------------------------------------------------- handlers
\* POST /api/runs
CreateRun(r, stream, mids) ==
  /\ runs[r].status = "none"
  /\ JudgeModel \in modelRows
  /\ ProblemSet \in problemSetRows    \* FOREIGN KEY (problem_set_id) REFERENCES problem_sets(id)
  /\ runs' = [runs EXCEPT ![r] = [NoRun EXCEPT !.status = "queued", !.stream = stream,
                                                !.model_ids = mids]]
  /\ UNCHANGED <<untouched, rows, execs, workers, runCancellations,
                 modelCancellations, runEvents, modelEvents, calls, subscribers>>

\* an execute handler without its check of the run's status
ExecuteAcceptsAny(status) == TRUE

ExecuteAccepts(status) == status # "running"

\* POST /api/runs/:id/execute, up to setImmediate
Execute(r, e) ==
  /\ runs[r].status # "none"
  /\ ExecuteAccepts(runs[r].status)
  /\ execs[e].phase = "unused"
  /\ \A d \in ExecIds : d < e => execs[d].phase # "unused"
  /\ runs' = [runs EXCEPT ![r].status = "running"]
  /\ runEvents' = PublishRun(runEvents, r, "run_status", "running", e)
  /\ execs' = [execs EXCEPT ![e] =
        [run |-> r, phase |-> "scheduled", runAborted |-> FALSE,
         models |-> SelectSeq(runs[r].model_ids, LAMBDA m : m \in modelRows),
         problems |-> SelectSeq(Problems, LAMBDA q : q.id \in problemRows),
         stream |-> runs[r].stream]]
  /\ subscribers' = emitSSE(subscribers, r, <<RunStatus("running")>>)
  /\ UNCHANGED <<untouched, rows, workers, runCancellations,
                 modelCancellations, modelEvents, calls>>

\* models.map(async (model) => ...): every processor runs synchronously up
\* to its first await, in the order of the models array.
RECURSIVE StartProcessors(_, _, _)
StartProcessors(S, e, i) ==
  IF i > Len(execs[e].models) THEN S
  ELSE StartProcessors(LoopHead(S, e, execs[e].models[i], 1), e, i + 1)

\* The setImmediate callback of the execute handler.
Body(e) ==
  /\ execs[e].phase = "scheduled"
  /\ LET r == execs[e].run
     IN IF JudgeModel \notin modelRows
        THEN /\ runs' = UpdateRun(runs, r, "error")
             /\ runEvents' = PublishRun(runEvents, r, "run_status", "error", e)
             /\ runCancellations' = cleanupRun(runCancellations, r)
             /\ modelCancellations' = cleanupModels(modelCancellations, r)
             /\ execs' = [execs EXCEPT ![e].phase = "done"]
             /\ subscribers' = emitSSE(subscribers, r, <<RunStatus("error")>>)
             /\ UNCHANGED <<rows, workers>>
        ELSE LET S0 == [Bundle EXCEPT !.wk[e] =
                          [m \in Cand |-> IF m \in ExecModels(e)
                                          THEN [NoWorker EXCEPT !.pc = "created"]
                                          ELSE NoWorker]]
                 S == StartProcessors(S0, e, 1)
                 rc == createRunCancellation(runCancellations, r, e)
                 mc == [modelCancellations EXCEPT ![r] =
                          [m \in Cand |-> IF m \in ExecModels(e) THEN e ELSE @[m]]]
             IN /\ ~S.over
                /\ rows' = S.rows
                /\ workers' = S.wk
                /\ IF AllSettled(S, e)
                   THEN /\ runs' = UpdateRun(runs, r, "completed")
                        /\ runEvents' = PublishRun(runEvents, r, "run_status", "completed", e)
                        /\ runCancellations' = cleanupRun(rc, r)
                        /\ modelCancellations' = cleanupModels(mc, r)
                        /\ execs' = [execs EXCEPT ![e].phase = "done"]
                        /\ subscribers' = emitSSE(subscribers, r,
                                                  Append(S.out, RunStatus("completed")))
                   ELSE /\ runCancellations' = rc
                        /\ modelCancellations' = mc
                        /\ execs' = [execs EXCEPT ![e].phase = "active"]
                        /\ subscribers' = emitSSE(subscribers, r, S.out)
                        /\ UNCHANGED <<runs, runEvents>>
  /\ UNCHANGED <<untouched, modelEvents, calls>>


\* ---------------------------------------------------------------- judge
\* A judge response is the text callModel returns together with what
\* JSON.parse makes of it: an object with its verdict, reasoning and score
\* members, another JSON value, or a SyntaxError. A member the object does not
\* have reads as undefined ("undefined" for the verdict, "" for the
\* reasoning, which the code treats like a missing one).
Obj(verdict, reasoning, score) ==
  [kind |-> "object", verdict |-> verdict, reasoning |-> reasoning, score |-> score]
NotObj(kind) ==
  [kind |-> kind, verdict |-> "undefined", reasoning |-> "", score |-> Undefined]

\* JSON.stringify of a score member
ScoreText(x) ==
  CASE x.t = "num" -> ToString(x.v)
    [] x.t = "null" -> "null"
    [] OTHER -> "\"high\""

\* the JSON text of an object
JsonText(o) ==
  "{" \o (IF o.verdict = "undefined" THEN "" ELSE "\"verdict\":\"" \o o.verdict \o "\",")
      \o "\"reasoning\":\"" \o o.reasoning \o "\""
      \o (IF o.score = Undefined THEN "" ELSE ",\"score\":" \o ScoreText(o.score))
      \o "}"

Json(o) == [text |-> JsonText(o), parsed |-> o]
Plain(text) == [text |-> text, parsed |-> NotObj("SyntaxError")]

\* the responses a judge call of the run engine returns
JudgeResponses ==
  { Json(Obj("PASS", "ok", Num(100))),
    Json(Obj("PASS", "ok", Num(150))),
    Json(Obj("FAIL", "ok", Str)),
    Plain("PASS") }

sliceEnd == 200

\* a text of 205 characters
X25 == "xxxxxxxxxxxxxxxxxxxxxxxxx"
LongText == "pass " \o X25 \o X25 \o X25 \o X25 \o X25 \o X25 \o X25 \o "xxxxxxxxxxxxxxxxxxxx" \o "yyyyy"

\* responses for the judge step on its own: objects with every combination
\* of members, JSON values that are no objects, and texts that are no JSON
JudgeTexts ==
  JudgeResponses
  \cup { Json(Obj(v, r, x)) :
           v \in {"PASS", "FAIL", "pass", "undefined"},
           r \in {"", "ok"},
           x \in {Undefined, Null, Num(0), Num(10), Num(100), Num(150), Str} }
  \cup { [text |-> "null", parsed |-> NotObj("null")],
         [text |-> "\"PASS\"", parsed |-> NotObj("string")] }
  \cup { Plain(pre \o core \o post) :
           pre \in {"", " ", "yes ", "Yes, ", "yesterday ", "YES_", "no "},
           core \in {"", "pass", "PASS", "passed", "pass_", "fail", "FAIL:", "failure", "pass-fail"},
           post \in {"", "\n"} }
  \cup { Plain(LongText) }

Lower == "abcdefghijklmnopqrstuvwxyz"
Upper == "ABCDEFGHIJKLMNOPQRSTUVWXYZ"
Digits == "0123456789_"
Space == {" ", "\n", "\t"}
At(text, i) == SubSeq(text, i, i)

\* String.prototype.trim
RECURSIVE TrimStart(_)
TrimStart(text) ==
  IF text # "" /\ At(text, 1) \in Space THEN TrimStart(SubSeq(text, 2, Len(text))) ELSE text
RECURSIVE TrimEnd(_)
TrimEnd(text) ==
  IF text # "" /\ At(text, Len(text)) \in Space
  THEN TrimEnd(SubSeq(text, 1, Len(text) - 1)) ELSE text
Trim(text) == TrimEnd(TrimStart(text))

\* String.prototype.toUpperCase
UpperChar(c) ==
  IF \E i \in 1..Len(Lower) : At(Lower, i) = c
  THEN At(Upper, CHOOSE i \in 1..Len(Lower) : At(Lower, i) = c)
  ELSE c
RECURSIVE toUpperCase(_)
toUpperCase(text) ==
  IF Len(text) = 0 THEN ""
  ELSE IF Len(text) = 1 THEN UpperChar(text)
  ELSE LET half == Len(text) \div 2
       IN toUpperCase(SubSeq(text, 1, half)) \o toUpperCase(SubSeq(text, half + 1, Len(text)))

\* \w of a regular expression
IsWordChar(c) ==
  \E i \in 1..Len(Upper) : c \in {At(Upper, i), At(Lower, i)} \/ (i <= Len(Digits) /\ c = At(Digits, i))

\* a match taken wherever the word's letters stand, word boundary or not
WordAtLoose(text, word, i) ==
  i >= 1 /\ i + Len(word) - 1 <= Len(text) /\ SubSeq(text, i, i + Len(word) - 1) = word

\* \bword\b matched at position i (^word\b when i = 1)
WordAt(text, word, i) ==
  /\ i >= 1 /\ i + Len(word) - 1 <= Len(text)
  /\ SubSeq(text, i, i + Len(word) - 1) = word
  /\ i = 1 \/ ~IsWordChar(At(text, i - 1))
  /\ i + Len(word) > Len(text) \/ ~IsWordChar(At(text, i + Len(word)))

\* /\bword\b/.test(text)
TestWord(text, word) == \E i \in 1..Len(text) : WordAt(text, word, i)

\* String.prototype.slice(0, sliceEnd)
Slice(text) == SubSeq(text, 1, IF Len(text) < sliceEnd THEN Len(text) ELSE sliceEnd)

\* the catch branch: the textual rule
Fallback(text) ==
  LET normalized == toUpperCase(Trim(text))
      isFail == TestWord(normalized, "FAIL")
      isPass == TestWord(normalized, "PASS") \/ WordAt(normalized, "YES", 1)
      pass == isPass /\ ~isFail
  IN [pass |-> pass,
      reasoning |-> "Simple verdict: " \o (IF pass THEN "PASS" ELSE "FAIL")
                      \o ". Full response: " \o Slice(text),
      score |-> Num(IF pass THEN 100 ELSE 0)]

\* judgeResponse.score || (pass ? 100 : 0)
ScoreOrDefault(x, pass) ==
  IF Truthy(x) THEN x ELSE Num(IF pass THEN 100 ELSE 0)

\* The try block, and the catch block when JSON.parse throws or when the
\* parsed value is null, whose members cannot be read.
ParseVerdict(resp) ==
  IF resp.parsed.kind \in {"SyntaxError", "null"}
  THEN Fallback(resp.text)
  ELSE LET pass == resp.parsed.verdict = "PASS"
       IN [pass |-> pass,
           reasoning |-> IF resp.parsed.reasoning # "" THEN resp.parsed.reasoning
                         ELSE "No reasoning provided",
           score |-> ScoreOrDefault(resp.parsed.score, pass)]

\* processModelForProblem from the return of the judge call: the verdict is
\* parsed, the row is updated with it and judge_done is published.
JudgeStep(resp) ==
  /\ LET pv == ParseVerdict(resp)
     IN judged' = [given |-> TRUE, resp |-> resp, pass |-> pv.pass, reasoning |-> pv.reasoning,
                   score |-> pv.score, status |-> "completed", event |-> "judge_done"]
  /\ UNCHANGED <<runs, modelRows, rows, execs, workers, runCancellations,
                 modelCancellations, runEvents, modelEvents, calls, subscribers,
                 problemSetRows, problemRows, rejected, retry, problemCreatedAt,
                 streamed>>

\* ---------------------------------------------------------------- worker steps
\* positions <<execution, model, index>> of the per-worker events published so far
Published ==
  UNION { {<<c[1], c[2], i>> : i \in 1..Len(workers[c[1]][c[2]].log)} : c \in ExecIds \X Cand }
EventAt(p) == workers[p[1]][p[2]].log[p[3]]

CountEvents(types) == Cardinality({p \in Published : EventAt(p).type \in types})

StreamDeltas ==
  Cardinality({p \in Published : execs[p[1]].stream /\ EventAt(p).type = "candidate_token"})
RECURSIVE SumCancels(_)
SumCancels(pairs) ==
  IF pairs = {} THEN 0
  ELSE LET c == CHOOSE c \in pairs : TRUE
       IN modelEvents[c[1]][c[2]] + SumCancels(pairs \ {c})
ModelCancels == SumCancels(RunIds \X Cand)
Reviewed == Cardinality({key \in RowKeys : rows[key].judged_by = "human"})
Extras == StreamDeltas + ModelCancels + Reviewed

\* a scheduler that awaits the models one after the other: a worker's call
\* is resumed only when the workers of the models before it have finished
InFlightInTurn(e, m, pc) ==
  /\ execs[e].phase = "active" /\ workers[e][m].pc = pc
  /\ \A i, j \in 1..Len(execs[e].models) :
       (i < j /\ execs[e].models[j] = m) => workers[e][execs[e].models[i]].pc = "finished"

InFlight(e, m, pc) == execs[e].phase = "active" /\ workers[e][m].pc = pc

\* onToken callback of callModelWithStreaming
OnToken(S, e, m) ==
  IF S.wk[e][m].aborted THEN S
  ELSE Emit(S, execs[e].run, m, "candidate_token", S.wk[e][m].idx, e)

\* A delta read from the provider's event stream (or the whole text of a
\* provider without streaming) is handed to onToken.
TokenArrives(e, m) ==
  /\ InFlight(e, m, "candidate")
  /\ execs[e].stream
  /\ workers[e][m].aborted \/ Extras < MaxExtras
  /\ ~calls[e][m].sleeping
  /\ workers' = OnToken(Bundle, e, m).wk
  /\ subscribers' = emitSSE(subscribers, execs[e].run, OnToken(Bundle, e, m).out)
  /\ UNCHANGED <<untouched, runs, rows, execs, runCancellations,
                 modelCancellations, runEvents, modelEvents, calls>>

\* processModelForProblem from the return of the candidate call to the next
\* await (the judge call) or to its return.
AfterCandidate(S, e, m) ==
  LET r == execs[e].run
      k == S.wk[e][m].idx
      key == <<e, m, k>>
      type == execs[e].problems[k].type
      S1 == IF execs[e].stream THEN S ELSE Emit(S, r, m, "candidate_token", k, e)
  IN IF S1.wk[e][m].aborted
     THEN LoopHead(MarkCancelled(S1, key), e, m, k + 1)
     ELSE LET S2 == UpdateRow(S1, key, [S1.rows[key] EXCEPT !.output = TRUE])
              S3 == Emit(S2, r, m, IF type = "html" THEN "html_candidate_done"
                                                    ELSE "candidate_done", k, e)
          IN IF type = "html"
             THEN LoopHead(S3, e, m, k + 1)
             ELSE IF S3.wk[e][m].aborted
                  THEN LoopHead(MarkCancelled(S3, key), e, m, k + 1)
                  ELSE [S3 EXCEPT !.wk[e][m].pc = "judge"]

CandidateReturns(e, m) ==
  /\ InFlight(e, m, "candidate")
  /\ ~calls[e][m].sleeping
  /\ calls' = [calls EXCEPT ![e][m] = NoCall]
  /\ Commit(AfterCandidate(Bundle, e, m), e)

\* catch (error) that ends the model's queue at the first failure
CatchBlockFatal(S, e, m) ==
  LET k == S.wk[e][m].idx
      key == <<e, m, k>>
      S1 == IF S.wk[e][m].aborted
            THEN Emit(MarkCancelled(S, key), execs[e].run, m, "model_cancelled", k, e)
            ELSE Emit(UpdateRow(S, key, [S.rows[key] EXCEPT !.status = "error"]),
                      execs[e].run, m, "model_error", k, e)
  IN [S1 EXCEPT !.wk[e][m].pc = "finished"]

\* catch (error) of processModelForProblem, then the next loop iteration
CatchBlock(S, e, m) ==
  LET r == execs[e].run
      k == S.wk[e][m].idx
      key == <<e, m, k>>
  IN IF S.wk[e][m].aborted
     THEN LoopHead(Emit(MarkCancelled(S, key), r, m, "model_cancelled", k, e), e, m, k + 1)
     ELSE LoopHead(Emit(UpdateRow(S, key, [S.rows[key] EXCEPT !.status = "error"]),
                        r, m, "model_error", k, e),
                   e, m, k + 1)

CandidateThrows(e, m) ==
  /\ InFlight(e, m, "candidate")
  /\ ~calls[e][m].sleeping
  /\ calls' = [calls EXCEPT ![e][m] = NoCall]
  /\ Commit(CatchBlock(Bundle, e, m), e)

\* a worker that publishes the verdict and never writes it to the row
AfterJudgeUnstored(S, e, m, resp) ==
  LoopHead(Emit(S, execs[e].run, m, "judge_done", S.wk[e][m].idx, e), e, m, S.wk[e][m].idx + 1)

\* processModelForProblem from the return of the judge call to its return
AfterJudge(S, e, m, resp) ==
  LET r == execs[e].run
      k == S.wk[e][m].idx
      key == <<e, m, k>>
      pv == ParseVerdict(resp)
      S1 == UpdateRow(S, key, [S.rows[key] EXCEPT !.output = TRUE,
                                                  !.score = pv.score,
                                                  !.status = "completed",
                                                  !.judged_by = "judge"])
  IN LoopHead(Emit(S1, r, m, "judge_done", k, e), e, m, k + 1)

JudgeReturns(e, m, resp) ==
  /\ InFlight(e, m, "judge")
  /\ ~calls[e][m].sleeping
  /\ calls' = [calls EXCEPT ![e][m] = NoCall]
  /\ Commit(AfterJudge(Bundle, e, m, resp), e)

JudgeThrows(e, m) ==
  /\ InFlight(e, m, "judge")
  /\ ~calls[e][m].sleeping
  /\ calls' = [calls EXCEPT ![e][m] = NoCall]
  /\ Commit(CatchBlock(Bundle, e, m), e)

\* ---------------------------------------------------------------- cancel
Processing(w) == w.pc \in {"candidate", "judge"}

Abort(w) ==
  IF w.aborted THEN w
  ELSE [w EXCEPT !.aborted = TRUE, !.abortedAt = IF Processing(w) THEN w.idx ELSE 0]

CancelRows(rws, hit) ==
  [key \in RowKeys |->
     IF key \in hit /\ rws[key].status \in {"pending", "manual"}
     THEN [rws[key] EXCEPT !.status = "cancelled", !.cancelled_at = TRUE]
     ELSE rws[key]]

CancelRunAccepts(status) == status \in {"running", "queued"}

\* POST /api/runs/:id/cancel
CancelRun(r) ==
  /\ CancelRunAccepts(runs[r].status)
  /\ LET c == runCancellations[r]
     IN IF c # 0
        THEN /\ execs' = [execs EXCEPT ![c].runAborted = TRUE]
             /\ runCancellations' = [runCancellations EXCEPT ![r] = 0]
             /\ workers' = [e \in ExecIds |-> [m \in Cand |->
                              IF modelCancellations[r][m] = e
                              THEN Abort(workers[e][m]) ELSE workers[e][m]]]
             /\ modelCancellations' = [modelCancellations EXCEPT ![r] = [m \in Cand |-> 0]]
        ELSE UNCHANGED <<execs, runCancellations, workers, modelCancellations>>
  /\ runs' = [runs EXCEPT ![r].status = "cancelled",
                          ![r].cancelled_at = TRUE,
                          ![r].cancelled_by = "user"]
  /\ rows' = CancelRows(rows, {key \in RowKeys : RowRun(key) = r})
  /\ runEvents' = PublishRun(PublishRun(runEvents, r, "run_status", "cancelled", 0),
                             r, "run_cancelled", "cancelled", 0)
  /\ subscribers' = emitSSE(subscribers, r,
                            <<RunStatus("cancelled"), Ev("run_cancelled", "none", 0, "none")>>)
  /\ UNCHANGED <<untouched, modelEvents, calls>>

\* cancel-model handler that cancels the whole run's tokens
CancelModelWide(r, m) ==
  /\ runs[r].status = "running"
  /\ m \in SeqToSet(runs[r].model_ids)
  /\ Extras < MaxExtras
  /\ workers' = [e \in ExecIds |-> [n \in Cand |->
                   IF modelCancellations[r][n] = e
                   THEN Abort(workers[e][n]) ELSE workers[e][n]]]
  /\ modelCancellations' = [modelCancellations EXCEPT ![r] = [n \in Cand |-> 0]]
  /\ rows' = CancelRows(rows, {key \in RowKeys : RowRun(key) = r /\ key[2] = m})
  /\ modelEvents' = [modelEvents EXCEPT ![r][m] = @ + 1]
  /\ subscribers' = emitSSE(subscribers, r, <<Ev("model_cancelled", m, 0, "none")>>)
  /\ UNCHANGED <<untouched, runs, execs, runCancellations, runEvents, calls>>

\* POST /api/runs/:runId/models/:modelId/cancel
CancelModel(r, m) ==
  /\ runs[r].status = "running"
  /\ m \in SeqToSet(runs[r].model_ids)
  /\ Extras < MaxExtras
  /\ LET c == modelCancellations[r][m]
     IN IF c # 0
        THEN /\ workers' = [workers EXCEPT ![c][m] = Abort(@)]
             /\ modelCancellations' = [modelCancellations EXCEPT ![r][m] = 0]
        ELSE UNCHANGED <<workers, modelCancellations>>
  /\ rows' = CancelRows(rows, {key \in RowKeys : RowRun(key) = r /\ key[2] = m})
  /\ modelEvents' = [modelEvents EXCEPT ![r][m] = @ + 1]
  /\ subscribers' = emitSSE(subscribers, r, <<Ev("model_cancelled", m, 0, "none")>>)
  /\ UNCHANGED <<untouched, runs, execs, runCancellations, runEvents, calls>>

\* ---------------------------------------------------------------- review
Decisions == {"pass", "fail"}

ReviewAllowed(key) ==
  rows[key].status # "none" /\ Problems[key[3]].type = "html"

\* POST /api/run-results/:id/review
ReviewResult(key, decision) ==
  /\ ReviewAllowed(key)
  /\ rows[key].judged_by = "human" \/ Extras < MaxExtras
  /\ rows' = [rows EXCEPT ![key].score = Num(IF decision = "pass" THEN 100 ELSE 0),
                          ![key].status = "completed",
                          ![key].judged_by = "human"]
  /\ UNCHANGED <<untouched, runs, execs, workers, runCancellations,
                 modelCancellations, runEvents, modelEvents, calls, subscribers>>

\* DELETE /api/problem-sets/:id: one transaction removes the run results of
\* the set's problems and runs, its runs, its problems and the set. Every run
\* and problem of the model belongs to ProblemSet.
DeleteProblemSet(ps) ==
  /\ ps \in problemSetRows
  /\ rows' = [key \in RowKeys |-> NoRow]
  /\ runs' = [r \in RunIds |-> NoRun]
  /\ problemRows' = problemRows \ ProblemIds
  /\ problemSetRows' = problemSetRows \ {ps}
  /\ UNCHANGED <<modelRows, rejected, retry, judged, problemCreatedAt, streamed, execs, workers, runCancellations,
                 modelCancellations, runEvents, modelEvents, calls, subscribers>>

\* GET /api/runs/:id/stream: the response joins the run's subscribers and is
\* sent run_status with the status read from the run's row.
Attach(s, r) ==
  /\ runs[r].status # "none"
  /\ runs[r].stream
  /\ subscribers[s] = NoSub
  /\ subscribers' = [subscribers EXCEPT ![s] =
        [run |-> r, open |-> TRUE, chan |-> <<RunStatus(runs[r].status)>>]]
  /\ UNCHANGED <<untouched, runs, rows, execs, workers, runCancellations,
                 modelCancellations, runEvents, modelEvents, calls>>

\* req.raw.on('close'): the response leaves the run's subscribers
Detach(s) ==
  /\ subscribers[s].open
  /\ subscribers' = [subscribers EXCEPT ![s].open = FALSE]
  /\ UNCHANGED <<untouched, runs, rows, execs, workers, runCancellations,
                 modelCancellations, runEvents, modelEvents, calls>>

\* what a handler leaves alone when it answers with an error reply
replyError(op, r, m, code) ==
  /\ rejected' = [op |-> op, run |-> r, model |-> m, code |-> code]
  /\ UNCHANGED <<runs, modelRows, rows, execs, workers, runCancellations,
                 modelCancellations, runEvents, modelEvents, calls, subscribers,
                 problemSetRows, problemRows, retry, judged, problemCreatedAt, streamed>>

\* POST /api/runs/:id/execute on a running run: reply.conflict
ExecuteRejected(r) ==
  /\ runs[r].status # "none"
  /\ ~ExecuteAccepts(runs[r].status)
  /\ replyError("execute", r, "none", 409)

\* POST /api/runs/:id/cancel on a run neither running nor queued: reply.badRequest
CancelRunRejected(r) ==
  /\ runs[r].status # "none"
  /\ ~CancelRunAccepts(runs[r].status)
  /\ replyError("cancel_run", r, "none", 400)

\* POST /api/runs/:runId/models/:modelId/cancel on a run that is not running
\* or for a model that is not in the run's model_ids: reply.badRequest
CancelModelRejected(r, m) ==
  /\ runs[r].status # "none"
  /\ runs[r].status # "running" \/ m \notin SeqToSet(runs[r].model_ids)
  /\ replyError("cancel_model", r, m, 400)

\* String.prototype.includes
Includes(text, sub) ==
  \E i \in 1..(Len(text) - Len(sub) + 1) : SubSeq(text, i, i + Len(sub) - 1) = sub

\* error.message?.includes('401') || ... '403' || ... '404'
NonRetriable(msg) ==
  /\ msg.defined
  /\ \/ Includes(msg.text, <<"4", "0", "1">>)
     \/ Includes(msg.text, <<"4", "0", "3">>)
     \/ Includes(msg.text, <<"4", "0", "4">>)

\* a backoff that grows by baseDelay with every attempt
DelayLinear(attempt) == baseDelay * (attempt + 1)

\* baseDelay * Math.pow(2, attempt)
Delay(attempt) == baseDelay * 2 ^ attempt

frame == <<runs, modelRows, rows, execs, workers, runCancellations,
           modelCancellations, runEvents, modelEvents, calls, subscribers,
           problemSetRows, problemRows, rejected, judged, problemCreatedAt>>

\* withRetry: await operation() resolves
OperationReturns ==
  /\ retry.outcome = "pending" /\ ~retry.sleeping
  /\ retry' = [retry EXCEPT !.outcome = "returned"]
  /\ UNCHANGED <<frame, streamed>>

\* withRetry: await operation() rejects with an error whose message is msg
OperationFails(msg) ==
  /\ retry.outcome = "pending" /\ ~retry.sleeping
  /\ LET r1 == [retry EXCEPT !.errors = Append(@, msg)]
     IN retry' = IF NonRetriable(msg) \/ retry.attempt = maxRetries
                 THEN [r1 EXCEPT !.outcome = "thrown", !.thrown = msg]
                 ELSE [r1 EXCEPT !.sleeping = TRUE, !.delays = Append(@, Delay(retry.attempt))]
  /\ UNCHANGED <<frame, streamed>>

\* withRetry: the setTimeout of the delay fires and the loop starts the next attempt
DelayElapses ==
  /\ retry.sleeping
  /\ retry' = [retry EXCEPT !.sleeping = FALSE, !.attempt = @ + 1]
  /\ UNCHANGED <<frame, streamed>>

\* ---------------------------------------------------------------- streaming
\* data lines read in one attempt
MaxChunks == 2

\* delta.content of a data line; an empty content is skipped
Contents == {"", "a", "b"}

\* what a broken stream or a refused request throws
StreamErrors == {Msg(<<"5", "0", "0">>), Msg(<<"4", "0", "1">>)}

Reading == retry.outcome = "pending" /\ ~retry.sleeping /\ ~streamed.done

\* the onToken callback of processModelForProblem (no cancellation):
\* candidate_token with delta: token
onToken(st, content) == [st EXCEPT !.deltas = Append(@, content)]

\* callModelWithStreaming: reader.read() yields a data line with a delta
DataLine(content) ==
  /\ Reading
  /\ streamed.chunks < MaxChunks
  /\ streamed' = IF content # ""
                 THEN [onToken(streamed, content) EXCEPT !.accumulated = @ \o content,
                                                          !.chunks = @ + 1]
                 ELSE [streamed EXCEPT !.chunks = @ + 1]
  /\ UNCHANGED <<frame, retry>>

\* the request is refused or reader.read() rejects part-way: the attempt
\* throws, its `accumulated` is lost, and withRetry decides as for any error
StreamBreaks(msg) ==
  /\ Reading
  /\ LET r1 == [retry EXCEPT !.errors = Append(@, msg)]
     IN retry' = IF NonRetriable(msg) \/ retry.attempt = maxRetries
                 THEN [r1 EXCEPT !.outcome = "thrown", !.thrown = msg]
                 ELSE [r1 EXCEPT !.sleeping = TRUE, !.delays = Append(@, Delay(retry.attempt))]
  /\ streamed' = [streamed EXCEPT !.accumulated = "", !.chunks = 0]
  /\ UNCHANGED frame

\* data: [DONE], or the end of the body: the attempt returns `accumulated`;
\* processModelForProblem stores it as output and publishes candidate_done
StreamReturns ==
  /\ Reading
  /\ retry' = [retry EXCEPT !.outcome = "returned"]
  /\ streamed' = [streamed EXCEPT !.done = TRUE, !.output = streamed.accumulated,
                                   !.text = streamed.accumulated]
  /\ UNCHANGED frame

\* withRetry: the attempt in flight fails with an error that is retried (not
\* 401, 403 or 404, and not the last attempt); the wrapper starts its delay.
AttemptFails(e, m) ==
  /\ \E pc \in {"candidate", "judge"} : InFlight(e, m, pc)
  /\ ~calls[e][m].sleeping
  /\ calls[e][m].attempt < maxRetries
  /\ calls' = [calls EXCEPT ![e][m].sleeping = TRUE]
  /\ UNCHANGED <<untouched, runs, rows, execs, workers, runCancellations,
                 modelCancellations, runEvents, modelEvents, subscribers>>

\* withRetry: the delay's timer fires and the next attempt sends its request
WakeUp(e, m) ==
  /\ \E pc \in {"candidate", "judge"} : InFlight(e, m, pc)
  /\ calls[e][m].sleeping
  /\ calls' = [calls EXCEPT ![e][m] = [attempt |-> @.attempt + 1, sleeping |-> FALSE]]
  /\ UNCHANGED <<untouched, runs, rows, execs, workers, runCancellations,
                 modelCancellations, runEvents, modelEvents, subscribers>>

\* ---------------------------------------------------------------- specification
Next ==
  \/ \E r \in OneRun, stream \in BOOLEAN, mids \in ModelIdLists : CreateRun(r, stream, mids)
  \/ \E r \in RunIds, e \in ExecIds : Execute(r, e)
  \/ \E e \in ExecIds : Body(e)
  \/ \E e \in ExecIds, m \in Cand : TokenArrives(e, m)
  \/ \E e \in ExecIds, m \in Cand : CandidateReturns(e, m)
  \/ \E e \in ExecIds, m \in Cand : CandidateThrows(e, m)
  \/ \E e \in ExecIds, m \in Cand, resp \in JudgeResponses : JudgeReturns(e, m, resp)
  \/ \E e \in ExecIds, m \in Cand : JudgeThrows(e, m)
  \/ \E r \in RunIds : CancelRun(r)
  \/ \E r \in RunIds, m \in Cand : CancelModel(r, m)
  \/ \E key \in RowKeys, d \in Decisions : ReviewResult(key, d)

Spec == Init /\ [][Next]_vars

\* Two runs side by side, without streaming and without reviews.
NextTwoRuns ==
  \/ \E r \in RunIds, mids \in ModelIdLists : CreateRun(r, FALSE, mids)
  \/ \E r \in RunIds, e \in ExecIds : Execute(r, e)
  \/ \E e \in ExecIds : Body(e)
  \/ \E e \in ExecIds, m \in Cand : CandidateReturns(e, m)
  \/ \E e \in ExecIds, m \in Cand : CandidateThrows(e, m)
  \/ \E e \in ExecIds, m \in Cand, resp \in JudgeResponses : JudgeReturns(e, m, resp)
  \/ \E e \in ExecIds, m \in Cand : JudgeThrows(e, m)
  \/ \E r \in RunIds : CancelRun(r)
  \/ \E r \in RunIds, m \in Cand : CancelModel(r, m)

SpecTwoRuns == Init /\ [][NextTwoRuns]_vars

\* One run of one model whose adapter and judge calls go through withRetry.
NextRetry ==
  \/ \E r \in OneRun : CreateRun(r, FALSE, <<"m1">>)
  \/ \E r \in OneRun, e \in ExecIds : Execute(r, e)
  \/ \E e \in ExecIds : Body(e)
  \/ \E e \in ExecIds, m \in Cand : AttemptFails(e, m)
  \/ \E e \in ExecIds, m \in Cand : WakeUp(e, m)
  \/ \E e \in ExecIds, m \in Cand : CandidateReturns(e, m)
  \/ \E e \in ExecIds, m \in Cand : CandidateThrows(e, m)
  \/ \E e \in ExecIds, m \in Cand, resp \in JudgeResponses : JudgeReturns(e, m, resp)
  \/ \E e \in ExecIds, m \in Cand : JudgeThrows(e, m)
  \/ \E r \in OneRun : CancelRun(r)
  \/ \E r \in OneRun, m \in Cand : CancelModel(r, m)

SpecRetry == Init /\ [][NextRetry]_vars

\* One call of withRetry with its default maxRetries and baseDelay, for every
\* course its operation can take.
NextPolicy ==
  \/ OperationReturns
  \/ \E msg \in Messages : OperationFails(msg)
  \/ DelayElapses

SpecPolicy == Init /\ [][NextPolicy]_vars

\* The judge step for every response of JudgeTexts.
NextJudge == \E resp \in JudgeTexts : JudgeStep(resp)

SpecJudge == Init /\ [][NextJudge]_vars

\* One streaming candidate call through withRetry.
NextStream ==
  \/ \E content \in Contents : DataLine(content)
  \/ \E msg \in StreamErrors : StreamBreaks(msg)
  \/ StreamReturns
  \/ DelayElapses

SpecStream == Init /\ [][NextStream]_vars

\* The problems were inserted in the order of Problems, each with the value
\* now() had at its insert; now() reads the wall clock, which can be set
\* back between two inserts, so every assignment of times can be stored.
InitClock ==
  /\ runs = [r \in RunIds |-> NoRun]
  /\ modelRows = AllModels
  /\ rows = [key \in RowKeys |-> NoRow]
  /\ execs = [e \in ExecIds |-> NoExec]
  /\ workers = [e \in ExecIds |-> [m \in Cand |-> NoWorker]]
  /\ runCancellations = [r \in RunIds |-> 0]
  /\ modelCancellations = [r \in RunIds |-> [m \in Cand |-> 0]]
  /\ runEvents = [r \in RunIds |-> NoEvent]
  /\ modelEvents = [r \in RunIds |-> [m \in Cand |-> 0]]
  /\ calls = [e \in ExecIds |-> [m \in Cand |-> NoCall]]
  /\ subscribers = [s \in SubIds |-> NoSub]
  /\ problemSetRows = {ProblemSet}
  /\ problemRows = ProblemIds
  /\ rejected = NoReject
  /\ retry = NoRetry
  /\ problemCreatedAt \in [ProblemIds -> 1..Len(Problems)]
  /\ streamed = NoStream
  /\ judged = NoVerdict

NextOrder ==
  \/ \E r \in OneRun, mids \in ModelIdLists : CreateRun(r, FALSE, mids)
  \/ \E r \in OneRun, e \in ExecIds : Execute(r, e)
  \/ \E e \in ExecIds : Body(e)
  \/ \E e \in ExecIds, m \in Cand : CandidateReturns(e, m)
  \/ \E e \in ExecIds, m \in Cand : CandidateThrows(e, m)
  \/ \E e \in ExecIds, m \in Cand, resp \in JudgeResponses : JudgeReturns(e, m, resp)
  \/ \E e \in ExecIds, m \in Cand : JudgeThrows(e, m)
  \/ \E r \in OneRun : CancelRun(r)

SpecOrder == InitClock /\ [][NextOrder]_vars

\* One run of the models m1 and m2 in which the calls of m1's worker may stay
\* pending for ever: its adapter call may return, its judge call never does,
\* and nothing obliges any of its steps to happen.  The calls of m2's worker
\* are answered: each attempt returns or fails, and each retry timer fires.
NextWorkers ==
  \/ \E r \in OneRun : CreateRun(r, FALSE, <<"m1", "m2">>)
  \/ \E r \in OneRun, e \in ExecIds : Execute(r, e)
  \/ \E e \in ExecIds : Body(e)
  \/ \E e \in ExecIds, m \in Cand : AttemptFails(e, m)
  \/ \E e \in ExecIds, m \in Cand : WakeUp(e, m)
  \/ \E e \in ExecIds, m \in Cand : CandidateReturns(e, m)
  \/ \E e \in ExecIds : CandidateThrows(e, "m2")
  \/ \E e \in ExecIds, resp \in JudgeResponses : JudgeReturns(e, "m2", resp)
  \/ \E e \in ExecIds : JudgeThrows(e, "m2")

\* No call of the worker stays pending for ever: an attempt that does not
\* return fails in the end, and the timer of a retry delay fires.
FairWorker(e, m) ==
  /\ WF_vars(CandidateThrows(e, m))
  /\ WF_vars(JudgeThrows(e, m))
  /\ WF_vars(WakeUp(e, m))

SpecWorkers == Init /\ [][NextWorkers]_vars /\ \A e \in ExecIds : FairWorker(e, "m2")

\* A run of one candidate model on a problem set that holds one problem,
\* text or html, executed and cancelled at will.
InitOneProblem ==
  /\ runs = [r \in RunIds |-> NoRun]
  /\ modelRows = AllModels
  /\ rows = [key \in RowKeys |-> NoRow]
  /\ execs = [e \in ExecIds |-> NoExec]
  /\ workers = [e \in ExecIds |-> [m \in Cand |-> NoWorker]]
  /\ runCancellations = [r \in RunIds |-> 0]
  /\ modelCancellations = [r \in RunIds |-> [m \in Cand |-> 0]]
  /\ runEvents = [r \in RunIds |-> NoEvent]
  /\ modelEvents = [r \in RunIds |-> [m \in Cand |-> 0]]
  /\ calls = [e \in ExecIds |-> [m \in Cand |-> NoCall]]
  /\ subscribers = [s \in SubIds |-> NoSub]
  /\ problemSetRows = {ProblemSet}
  /\ problemRows \in {{pid} : pid \in ProblemIds}
  /\ rejected = NoReject
  /\ retry = NoRetry
  /\ problemCreatedAt = InsertionTimes
  /\ streamed = NoStream
  /\ judged = NoVerdict

NextFair ==
  \/ \E r \in OneRun : CreateRun(r, FALSE, <<"m1">>)
  \/ \E r \in OneRun, e \in ExecIds : Execute(r, e)
  \/ \E e \in ExecIds : Body(e)
  \/ \E e \in ExecIds, m \in Cand : AttemptFails(e, m)
  \/ \E e \in ExecIds, m \in Cand : WakeUp(e, m)
  \/ \E e \in ExecIds, m \in Cand : CandidateReturns(e, m)
  \/ \E e \in ExecIds, m \in Cand : CandidateThrows(e, m)
  \/ \E e \in ExecIds, m \in Cand, resp \in JudgeResponses : JudgeReturns(e, m, resp)
  \/ \E e \in ExecIds, m \in Cand : JudgeThrows(e, m)
  \/ \E r \in OneRun : CancelRun(r)
  \/ \E r \in OneRun, m \in Cand : CancelModel(r, m)

\* The event loop runs every setImmediate callback, and every adapter or
\* judge call returns or fails in the end.
SpecFair ==
  /\ InitOneProblem /\ [][NextFair]_vars
  /\ \A e \in ExecIds : WF_vars(Body(e)) /\ \A m \in Cand : FairWorker(e, m)

\* One run, without streaming, whose callers also send requests that the
\* handlers answer with an error.
NextCaller ==
  \/ \E r \in OneRun, mids \in ModelIdLists : CreateRun(r, FALSE, mids)
  \/ \E r \in OneRun, e \in ExecIds : Execute(r, e)
  \/ \E r \in OneRun : ExecuteRejected(r)
  \/ \E e \in ExecIds : Body(e)
  \/ \E e \in ExecIds, m \in Cand : CandidateReturns(e, m)
  \/ \E e \in ExecIds, m \in Cand : CandidateThrows(e, m)
  \/ \E e \in ExecIds, m \in Cand, resp \in JudgeResponses : JudgeReturns(e, m, resp)
  \/ \E e \in ExecIds, m \in Cand : JudgeThrows(e, m)
  \/ \E r \in OneRun : CancelRun(r)
  \/ \E r \in OneRun : CancelRunRejected(r)
  \/ \E r \in OneRun, m \in Cand : CancelModel(r, m)
  \/ \E r \in OneRun, m \in AllModels : CancelModelRejected(r, m)

SpecCaller == Init /\ [][NextCaller]_vars

\* Two streaming runs of one model, each executed once, and a client that
\* subscribes to the first, which is also the one that is cancelled.
NextSSE ==
  \/ \E r \in RunIds : CreateRun(r, TRUE, <<"m1">>)
  \/ Execute("r1", 1)
  \/ Execute("r2", 2)
  \/ \E e \in ExecIds : Body(e)
  \/ \E e \in ExecIds, m \in Cand : TokenArrives(e, m)
  \/ \E e \in ExecIds, m \in Cand : CandidateReturns(e, m)
  \/ \E e \in ExecIds, m \in Cand : CandidateThrows(e, m)
  \/ \E e \in ExecIds, m \in Cand, resp \in JudgeResponses : JudgeReturns(e, m, resp)
  \/ \E e \in ExecIds, m \in Cand : JudgeThrows(e, m)
  \/ \E r \in OneRun : CancelRun(r)
  \/ \E r \in OneRun, m \in Cand : CancelModel(r, m)
  \/ \E s \in SubIds, r \in OneRun : Attach(s, r)
  \/ \E s \in SubIds : Detach(s)

SpecSSE == Init /\ [][NextSSE]_vars

\* One run, without streaming, whose problem set can be deleted at any time.
NextDelete ==
  \/ \E r \in OneRun, mids \in ModelIdLists : CreateRun(r, FALSE, mids)
  \/ \E r \in OneRun, e \in ExecIds : Execute(r, e)
  \/ \E e \in ExecIds : Body(e)
  \/ \E e \in ExecIds, m \in Cand : CandidateReturns(e, m)
  \/ \E e \in ExecIds, m \in Cand : CandidateThrows(e, m)
  \/ \E e \in ExecIds, m \in Cand, resp \in JudgeResponses : JudgeReturns(e, m, resp)
  \/ \E e \in ExecIds, m \in Cand : JudgeThrows(e, m)
  \/ \E r \in OneRun : CancelRun(r)
  \/ \E key \in RowKeys, d \in Decisions : ReviewResult(key, d)
  \/ \E ps \in {ProblemSet} : DeleteProblemSet(ps)

SpecDelete == Init /\ [][NextDelete]_vars

\* The server opened on a database file that already holds a queued run: the
\* tables are created only if they do not exist, and what the file holds is
\* taken as it is. The row of the run's judge model is in the file or not.
InitOpened ==
  /\ runs = [r \in RunIds |->
               IF r \in OneRun
               THEN [NoRun EXCEPT !.status = "queued", !.model_ids = <<"m1">>]
               ELSE NoRun]
  /\ modelRows \in {AllModels, Cand}
  /\ rows = [key \in RowKeys |-> NoRow]
  /\ execs = [e \in ExecIds |-> NoExec]
  /\ workers = [e \in ExecIds |-> [m \in Cand |-> NoWorker]]
  /\ runCancellations = [r \in RunIds |-> 0]
  /\ modelCancellations = [r \in RunIds |-> [m \in Cand |-> 0]]
  /\ runEvents = [r \in RunIds |-> NoEvent]
  /\ modelEvents = [r \in RunIds |-> [m \in Cand |-> 0]]
  /\ calls = [e \in ExecIds |-> [m \in Cand |-> NoCall]]
  /\ subscribers = [s \in SubIds |-> NoSub]
  /\ problemSetRows = {ProblemSet}
  /\ problemRows = ProblemIds
  /\ rejected = NoReject
  /\ retry = NoRetry
  /\ problemCreatedAt = InsertionTimes
  /\ streamed = NoStream
  /\ judged = NoVerdict

NextOpened ==
  \/ \E r \in OneRun, e \in ExecIds : Execute(r, e)
  \/ \E e \in ExecIds : Body(e)
  \/ \E e \in ExecIds, m \in Cand : CandidateReturns(e, m)
  \/ \E e \in ExecIds, m \in Cand : CandidateThrows(e, m)
  \/ \E e \in ExecIds, m \in Cand, resp \in JudgeResponses : JudgeReturns(e, m, resp)
  \/ \E e \in ExecIds, m \in Cand : JudgeThrows(e, m)
  \/ \E r \in OneRun : CancelRun(r)

SpecOpened == InitOpened /\ [][NextOpened]_vars

TypeOK ==
  /\ \A r \in RunIds : runs[r].status \in {"none", "queued", "running", "completed", "cancelled", "error"}
  /\ \A key \in RowKeys : rows[key].status \in {"none", "pending", "manual", "completed", "cancelled", "error"}
  /\ \A e \in ExecIds, m \in Cand : calls[e][m].attempt \in 0..maxRetries /\ calls[e][m].sleeping \in BOOLEAN
  /\ \A s \in SubIds : subscribers[s].run \in RunIds \cup {"none"} /\ subscribers[s].open \in BOOLEAN
  /\ problemSetRows \subseteq {ProblemSet}
  /\ problemRows \subseteq ProblemIds

\* ---------------------------------------------------------------- properties
Started(e) == execs[e].phase # "unused"
Exists(key) == rows[key].status # "none"
RunRows(r) == {key \in RowKeys : Started(key[1]) /\ RowRun(key) = r /\ Exists(key)}
CancelAccepted(r) == runs[r].cancelled_by = "user"

\* events worker (e, m) publishes in a step
NewEvents(e, m) ==
  SubSeq(workers'[e][m].log, Len(workers[e][m].log) + 1, Len(workers'[e][m].log))

\* C1: whenever the stored status of a run is completed, every run result of
\* that run is completed, manual, cancelled or error; none is pending.
C1_CompletionClosure ==
  \A r \in RunIds :
    runs[r].status = "completed" =>
      \A key \in RunRows(r) : rows[key].status \in {"completed", "manual", "cancelled", "error"}

\* C2: once a cancel of the run has been accepted, the stored status of the
\* run is never completed.
C2_NeverCompletedAfterCancel ==
  \A r \in RunIds : CancelAccepted(r) => runs[r].status # "completed"

\* C3: after a cancel of the run has been accepted, a worker whose token the
\* cancel triggered publishes nothing but model_cancelled.
C3_OnlyModelCancelledAfterCancel ==
  [][\A e \in ExecIds, m \in Cand :
       (Started(e) /\ CancelAccepted(execs[e].run) /\ workers[e][m].aborted)
         => \A i \in 1..Len(NewEvents(e, m)) : NewEvents(e, m)[i].type = "model_cancelled"]_vars

\* C4: a run whose stored status is completed or cancelled is never moved
\* back to running.
C4_NoReentryFromCompletedOrCancelled ==
  [][\A r \in RunIds :
       runs[r].status \in {"completed", "cancelled"} => runs'[r].status # "running"]_vars

\* C5: once the status of a run result is completed, cancelled or error, no
\* step changes it.
C5_ResultStatusAbsorbing ==
  [][\A key \in RowKeys :
       rows[key].status \in Terminal => rows'[key].status = rows[key].status]_vars

\* C6: a run result has a score exactly when its status is completed, and
\* every stored score is an integer between 0 and 100.
ScoreInRange(x) == x.t = "num" /\ x.v \in 0..100
C6_ScoreDomain ==
  \A key \in RowKeys :
    Exists(key) =>
      /\ (rows[key].score # Null) <=> (rows[key].status = "completed")
      /\ (rows[key].score # Null) => ScoreInRange(rows[key].score)

\* C7: when the token of a worker was triggered while the worker was
\* processing problem k, the run result of problem k is cancelled and has a
\* cancelled_at stamp once the worker has left that problem.
C7_CancelledWhileProcessing ==
  \A e \in ExecIds, m \in Cand :
    LET w == workers[e][m]
    IN (w.abortedAt > 0 /\ w.pc = "finished") =>
         /\ rows[<<e, m, w.abortedAt>>].status = "cancelled"
         /\ rows[<<e, m, w.abortedAt>>].cancelled_at

\* C8: after the run token or the model token of a worker is triggered, a
\* (problem, model) pair of the run that has no run result gets none.
Triggered(e, m) ==
  Started(e) /\ workers[e][m].pc # "unused" /\ (execs[e].runAborted \/ workers[e][m].aborted)
PairHasRow(r, m, k) ==
  \E d \in ExecIds : Started(d) /\ execs[d].run = r /\ Exists(<<d, m, k>>)
C8_NoRowForUnstartedPair ==
  [][\A e \in ExecIds, m \in Cand, k \in 1..Len(Problems) :
       (Triggered(e, m) /\ ~PairHasRow(execs[e].run, m, k))
         => ~PairHasRow(execs[e].run, m, k)']_vars

\* C10: no worker of an execution whose scheduler body is under way publishes
\* an event while the run_status published last for the run carries a
\* terminal status.
C10_NoWorkerEventAfterTerminalStatus ==
  [][\A e \in ExecIds, m \in Cand :
       (execs[e].phase = "active" /\ runEvents[execs[e].run].status \in Terminal)
         => NewEvents(e, m) = <<>>]_vars

\* ---- C9
EventsOf(e, m, k) == SelectSeq(workers[e][m].log, LAMBDA ev : ev.problem = k)
Count(seq, types) == Cardinality({i \in 1..Len(seq) : seq[i].type \in types})
Done == {"candidate_done", "html_candidate_done"}
Closing == {"judge_done", "model_error", "model_cancelled"}
Listed == {"model_started", "candidate_token", "judge_done"} \cup Done
Rank(type) ==
  CASE type = "model_started" -> 1
    [] type = "model_streaming_started" -> 2
    [] type = "candidate_token" -> 3
    [] type \in Done -> 4
    [] type \in Closing -> 5
Ordered(seq) == \A i, j \in 1..Len(seq) : i < j => Rank(seq[i].type) <= Rank(seq[j].type)
ProblemOrder(e, m) ==
  LET log == workers[e][m].log
  IN \A i, j \in 1..Len(log) : i < j => log[i].problem <= log[j].problem
HasLeft(e, m, k) ==
  Exists(<<e, m, k>>) /\ (workers[e][m].pc = "finished" \/ workers[e][m].idx > k)

\* C9 as stated: for every problem a worker has processed, the listed events
\* it published are model_started, candidate_token*, exactly one
\* candidate_done or html_candidate_done, at most one judge_done, in that
\* order, and the events of an earlier problem come first.
C9_ExactlyOneCandidateDone ==
  \A e \in ExecIds, m \in Cand :
    /\ ProblemOrder(e, m)
    /\ \A k \in 1..Len(Problems) :
         HasLeft(e, m, k) =>
           LET ev == SelectSeq(EventsOf(e, m, k), LAMBDA x : x.type \in Listed)
           IN /\ Ordered(ev)
              /\ Count(ev, {"model_started"}) = 1
              /\ Count(ev, Done) = 1
              /\ Count(ev, {"judge_done"}) <= 1

\* C9 amended: per execution and model, the events of a problem are
\* model_started first (model_streaming_started next in a streaming run),
\* then candidate_token*, then at most one candidate_done or
\* html_candidate_done, published exactly when the candidate output was
\* stored, then at most one of judge_done, model_error, model_cancelled,
\* judge_done only after candidate_done; the events of an earlier problem
\* come first.
C9_EventOrder ==
  \A e \in ExecIds, m \in Cand :
    /\ ProblemOrder(e, m)
    /\ \A k \in 1..Len(Problems) :
         LET ev == EventsOf(e, m, k)
         IN /\ ev # <<>> => ev[1].type = "model_started"
            /\ Ordered(ev)
            /\ Count(ev, {"model_started"}) <= 1
            /\ Count(ev, {"model_streaming_started"}) <= 1
            /\ Count(ev, Done) <= 1
            /\ Count(ev, Closing) <= 1
            /\ (Count(ev, Done) = 1) <=> rows[<<e, m, k>>].output
            /\ Count(ev, {"judge_done"}) = 1 => Count(ev, {"candidate_done"}) = 1

\* a worker has gone through both problems: a candidate_token and judge_done
\* for the text problem, html_candidate_done for the html problem
C9_Witness ==
  \E e \in ExecIds, m \in Cand :
    /\ workers[e][m].pc = "finished"
    /\ Count(EventsOf(e, m, 1), {"judge_done"}) = 1
    /\ Count(EventsOf(e, m, 1), {"candidate_token"}) = 1
    /\ Count(EventsOf(e, m, 2), {"html_candidate_done"}) = 1

\* C11: a run has at most one run result per (problem, candidate model).
RowsOf(r, m, k) == {d \in ExecIds : Started(d) /\ execs[d].run = r /\ Exists(<<d, m, k>>)}
C11_OneRowPerTriple ==
  \A r \in RunIds, m \in Cand, k \in 1..Len(Problems) : Cardinality(RowsOf(r, m, k)) <= 1

\* ---- C12
ErrorStep(e, m, k) ==
  \E i \in 1..Len(NewEvents(e, m)) :
    NewEvents(e, m)[i] = [type |-> "model_error", problem |-> k]
OthersUntouched(e, m) ==
  \A d \in ExecIds, n \in Cand :
    (d # e \/ n # m) =>
      /\ workers'[d][n] = workers[d][n]
      /\ \A k \in 1..Len(Problems) : rows'[<<d, n, k>>] = rows[<<d, n, k>>]
Finalized(e) == execs[e].phase = "active" /\ execs'[e].phase = "done"

\* C12: a row has status error only when its worker published model_error
\* for it; the step that publishes model_error for problem k leaves the row
\* in status error, is not taken by a worker whose token is triggered,
\* starts the worker's next problem when there is one and the run token is
\* not triggered, touches no other worker, and when it is the last step of
\* the execution it stores a run status other than error: completed when
\* the run token is not triggered.
C12_ErrorNotFatal ==
  /\ [](\A key \in RowKeys :
          rows[key].status = "error" =>
            Count(EventsOf(key[1], key[2], key[3]), {"model_error"}) = 1)
  /\ [][\A e \in ExecIds, m \in Cand, k \in 1..Len(Problems) :
          ErrorStep(e, m, k) =>
            /\ ~workers[e][m].aborted
            /\ rows'[<<e, m, k>>].status = "error"
            /\ (k < Len(execs[e].problems) /\ ~execs[e].runAborted) =>
                  /\ rows'[<<e, m, k + 1>>].status \in {"pending", "manual"}
                  /\ workers'[e][m].pc = "candidate"
                  /\ workers'[e][m].idx = k + 1
            /\ OthersUntouched(e, m)
            /\ Finalized(e) =>
                  /\ runs'[execs[e].run].status # "error"
                  /\ ~execs[e].runAborted => runs'[execs[e].run].status = "completed"]_vars

\* every call of an execution failed (the judge call for the text problem,
\* the candidate call for the html problem) and the run is completed
C12_Witness ==
  \E e \in ExecIds, m \in Cand :
    /\ execs[e].phase = "done"
    /\ execs[e].models = <<m>>
    /\ runs[execs[e].run].status = "completed"
    /\ Count(EventsOf(e, m, 1), {"candidate_done"}) = 1
    /\ rows[<<e, m, 1>>].status = "error"
    /\ rows[<<e, m, 2>>].status = "error"

\* ---- C16
IsHtml(key) == Problems[key[3]].type = "html"
Created(key) == ~Exists(key) /\ Exists(key)'
HtmlDoneStep(key) ==
  \E i \in 1..Len(NewEvents(key[1], key[2])) :
    NewEvents(key[1], key[2])[i] = [type |-> "html_candidate_done", problem |-> key[3]]
CreatedAsSpecified ==
  \A key \in RowKeys :
    Created(key) =>
      rows'[key] = [NoRow EXCEPT !.status = IF IsHtml(key) THEN "manual" ELSE "pending"]
NoJudgeForHtml ==
  \A key \in RowKeys :
    IsHtml(key) =>
      /\ rows[key].judged_by # "judge"
      /\ Count(EventsOf(key[1], key[2], key[3]), {"judge_done"}) = 0
      /\ ~(workers[key[1]][key[2]].pc = "judge" /\ workers[key[1]][key[2]].idx = key[3])

\* C16 as stated: a row is created manual for an html problem and pending
\* for a text problem; no judge call or judge_done for an html problem; when
\* html_candidate_done is published the row has status manual, its output
\* set and no score.
C16_HtmlStaysManual ==
  /\ []NoJudgeForHtml
  /\ [][/\ CreatedAsSpecified
        /\ \A key \in RowKeys :
             HtmlDoneStep(key) =>
               /\ rows'[key].status = "manual"
               /\ rows'[key].output
               /\ rows'[key].score = Null]_vars

\* C16 amended: as above, but when html_candidate_done is published the
\* worker stores the output and leaves status, score and judged_by as they
\* were; a row that no review and no cancel handler has touched is manual
\* with no score.
C16_WorkerLeavesHtmlStatus ==
  /\ []NoJudgeForHtml
  /\ [](\A key \in RowKeys : rows[key].status = "manual" =>
            rows[key].score = Null /\ rows[key].judged_by = "null")
  /\ [][/\ CreatedAsSpecified
        /\ \A key \in RowKeys :
             HtmlDoneStep(key) =>
               /\ rows'[key].output
               /\ rows'[key].status = rows[key].status
               /\ rows'[key].score = rows[key].score
               /\ rows'[key].judged_by = rows[key].judged_by
               /\ rows[key].status \in {"manual", "completed", "cancelled"}
               /\ rows[key].status = "completed" => rows[key].judged_by = "human"]_vars

\* the worker has published html_candidate_done for an html row, which is
\* manual with its output stored, after the text problem was judged
C16_Witness ==
  \E key \in RowKeys :
    /\ IsHtml(key)
    /\ Count(EventsOf(key[1], key[2], key[3]), {"html_candidate_done"}) = 1
    /\ rows[key].output
    /\ rows[key].status = "manual"
    /\ rows[<<key[1], key[2], 1>>].status = "completed"

\* ---- C17
ReviewStep(key) ==
  /\ rows'[key].judged_by = "human"
  /\ rows'[key].status = "completed"
  /\ rows'[key].score \in {Num(100), Num(0)}
  /\ <<rows'[key].status, rows'[key].score, rows'[key].judged_by>>
       # <<rows[key].status, rows[key].score, rows[key].judged_by>>

\* C17: a review changes a run result only when its status is manual and
\* its problem is html.
C17_ReviewOnlyWhenManual ==
  [][\A key \in RowKeys :
       ReviewStep(key) => (rows[key].status = "manual" /\ IsHtml(key))]_vars

\* ---- C20
NewlyAborted(e, m) == ~workers[e][m].aborted /\ workers'[e][m].aborted
NewlyRunAborted(e) == ~execs[e].runAborted /\ execs'[e].runAborted
Registered(r, m) == modelCancellations[r][m]

\* C20: a step that triggers the run token registered for run r triggers
\* every model token registered under r and no token of another run; a
\* step that triggers no run token triggers at most one model token, the
\* one registered for its (run, model), and changes no other worker; a run
\* token is registered whenever a model token of the run is.
C20_CancelScope ==
  /\ [](\A r \in RunIds, m \in Cand : Registered(r, m) # 0 => runCancellations[r] # 0)
  /\ [][/\ \A e \in ExecIds :
             NewlyRunAborted(e) =>
               /\ runCancellations[execs[e].run] = e
               /\ \A d \in ExecIds : NewlyRunAborted(d) => d = e
               /\ \A d \in ExecIds, m \in Cand :
                    NewlyAborted(d, m) => execs[d].run = execs[e].run
               /\ \A m \in Cand :
                    Registered(execs[e].run, m) # 0
                      => workers'[Registered(execs[e].run, m)][m].aborted
        /\ \A d \in ExecIds, m \in Cand :
             NewlyAborted(d, m) =>
               /\ Registered(execs[d].run, m) = d
               /\ (\A e \in ExecIds : ~NewlyRunAborted(e)) =>
                    \A c \in ExecIds, n \in Cand :
                      (c # d \/ n # m) => workers'[c][n] = workers[c][n]]_vars

\* model m1 of r1 was cancelled while in flight, the run token and the
\* token of m2 stayed untriggered, m2 went through both problems and r1 is
\* completed
C20_Witness ==
  \E e \in ExecIds :
    /\ execs[e].run = "r1"
    /\ modelEvents["r1"]["m1"] = 1
    /\ workers[e]["m1"].aborted /\ workers[e]["m1"].abortedAt = 1
    /\ ~workers[e]["m2"].aborted /\ ~execs[e].runAborted
    /\ workers[e]["m2"].pc = "finished"
    /\ rows[<<e, "m2", 1>>].status = "completed"
    /\ rows[<<e, "m2", 2>>].status = "manual" /\ rows[<<e, "m2", 2>>].output
    /\ runs["r1"].status = "completed"

\* C19: once the token of a worker has been triggered while its adapter or
\* judge call is suspended, the call makes no further attempt and starts no
\* further retry delay.
C19_AbortStopsCall ==
  [][\A e \in ExecIds, m \in Cand :
       (workers[e][m].aborted /\ workers[e][m].pc \in {"candidate", "judge"})
         => /\ calls'[e][m].attempt <= calls[e][m].attempt
            /\ (calls'[e][m].sleeping => calls[e][m].sleeping)]_vars

engine == <<runs, rows, execs, workers, runCancellations, modelCancellations,
            runEvents, modelEvents, calls, subscribers>>

\* the error reply a handler gives in this step, if it gives one
ErrorReply(op, code) == rejected' # rejected /\ rejected'.op = op /\ rejected'.code = code

\* C13: a caller error changes nothing and publishes nothing. An execute of a
\* running run is answered 409, a cancel of a run that is neither running nor
\* queued is answered 400, a cancel of a model of a run that is not running,
\* or of a model that is not in the run's candidate list, is answered 400;
\* no step starts an execution of a running run, cancels a run that is
\* neither running nor queued, or cancels a model in either of those cases.
C13_CallerErrorsChangeNothing ==
  [][/\ rejected' # rejected => UNCHANGED engine
     /\ \A r \in RunIds :
          /\ runs[r].status = "running" =>
               /\ \A e \in ExecIds : execs[e].phase = "unused" => execs'[e].run # r
               /\ rejected'.run = r => ~ErrorReply("cancel_run", 400)
          /\ runs[r].status \in {"completed", "cancelled", "error"} =>
               /\ runs'[r].cancelled_at = runs[r].cancelled_at
               /\ runs'[r].cancelled_by = runs[r].cancelled_by
               /\ ~(runEvents'[r] # runEvents[r] /\ runEvents'[r].type = "run_cancelled")
               /\ rejected'.run = r => ~ErrorReply("execute", 409)
          /\ runs[r].status = "queued" =>
               (rejected'.run = r => ~ErrorReply("execute", 409) /\ ~ErrorReply("cancel_run", 400))
          /\ \A m \in Cand :
               \/ runs[r].status = "running" /\ m \in SeqToSet(runs[r].model_ids)
                    /\ ~(ErrorReply("cancel_model", 400) /\ rejected'.run = r /\ rejected'.model = m)
               \/ /\ ~(runs[r].status = "running" /\ m \in SeqToSet(runs[r].model_ids))
                  /\ modelEvents'[r][m] = modelEvents[r][m]
                  /\ \A e \in ExecIds :
                       (execs[e].run = r /\ workers'[e][m].aborted /\ ~workers[e][m].aborted)
                         => runs'[r].status = "cancelled"]_vars

\* an execute of a running run whose worker has a call in flight was answered 409
C13_Witness ==
  /\ rejected = [op |-> "execute", run |-> "r1", model |-> "none", code |-> 409]
  /\ runs["r1"].status = "running"
  /\ \E e \in ExecIds, m \in Cand : InFlight(e, m, "judge")

\* nothing of the problem set is stored
NothingOf(pss, prs, rs, rws) ==
  /\ ProblemSet \notin pss
  /\ prs = {}
  /\ \A r \in RunIds : rs[r].status = "none"
  /\ \A key \in RowKeys : rws[key].status = "none"

\* C18: the step that deletes the problem set removes the set, its problems,
\* its runs and their run results together; no step removes a problem while
\* the set stays; and once the set is gone no problem, run or run result
\* of it exists, whatever the workers of its runs do afterwards.
C18_CascadeDelete ==
  /\ [](ProblemSet \notin problemSetRows => NothingOf(problemSetRows, problemRows, runs, rows))
  /\ [](ProblemSet \in problemSetRows => problemRows = ProblemIds)
  /\ [][(ProblemSet \in problemSetRows /\ ProblemSet \notin problemSetRows')
          => NothingOf(problemSetRows', problemRows', runs', rows')]_vars

\* the set was deleted while a worker had a call in flight for the first
\* problem; the worker has since left its loop without a row for the second
C18_Witness ==
  /\ ProblemSet \notin problemSetRows
  /\ \E e \in ExecIds, m \in Cand :
       /\ execs[e].phase = "done"
       /\ Len(execs[e].problems) = 2
       /\ workers[e][m].pc = "finished"
       /\ ~workers[e][m].aborted /\ ~execs[e].runAborted
       /\ Count(EventsOf(e, m, 1), {"candidate_done"}) = 1
       /\ EventsOf(e, m, 2) = <<>>

\* the events the workers of execution e publish in a step, model by model
RECURSIVE WorkerEvents(_, _)
WorkerEvents(e, i) ==
  IF i > Len(execs'[e].models) THEN <<>>
  ELSE LET m == execs'[e].models[i]
           new == NewEvents(e, m)
       IN [j \in 1..Len(new) |-> Ev(new[j].type, m, new[j].problem, "none")]
            \o WorkerEvents(e, i + 1)

\* the events published for run r in a step, in the order of the calls of
\* emitSSE: those of the workers, then those on the run, then model_cancelled
\* of the cancel-model handler
RunEventsOfStep(r) ==
  IF runEvents'[r] = runEvents[r] THEN <<>>
  ELSE IF runEvents'[r].type = "run_cancelled"
       THEN <<RunStatus("cancelled"), Ev("run_cancelled", "none", 0, "none")>>
       ELSE <<RunStatus(runEvents'[r].status)>>
ModelEventsOfStep(r) ==
  IF \E m \in Cand : modelEvents'[r][m] # modelEvents[r][m]
  THEN <<Ev("model_cancelled", CHOOSE m \in Cand : modelEvents'[r][m] # modelEvents[r][m], 0, "none")>>
  ELSE <<>>
PublishedInStep(r) ==
  LET es == {e \in ExecIds : execs'[e].run = r /\ workers'[e] # workers[e]
                                /\ \E m \in Cand : NewEvents(e, m) # <<>>}
      wk == IF es = {} THEN <<>> ELSE WorkerEvents(CHOOSE e \in es : TRUE, 1)
  IN wk \o RunEventsOfStep(r) \o ModelEventsOfStep(r)

\* C15: what a subscriber of run r has received is one run_status with the
\* status r had when it attached, followed by the events published for r
\* since then and before it disconnected, in the order of publication;
\* nothing published before, nothing of another run, nothing after the
\* disconnect.
C15_SubscriberSeesExactly ==
  [][\A s \in SubIds :
       LET old == subscribers[s]
           new == subscribers'[s]
       IN /\ (~old.open /\ new.open) =>
               /\ old = NoSub
               /\ runs[new.run].stream
               /\ new.chan = <<RunStatus(runs[new.run].status)>>
               /\ \A r \in RunIds : PublishedInStep(r) = <<>>
          /\ (old.open /\ new.open) =>
               /\ new.run = old.run
               /\ new.chan = old.chan \o PublishedInStep(old.run)
          /\ ~new.open => new.chan = old.chan /\ new.run = old.run]_vars

\* a subscriber attached to r1 while it was running, received events, and
\* disconnected before r1 completed; r2 has run to completion as well
C15_Witness ==
  \E s \in SubIds :
    /\ ~subscribers[s].open
    /\ subscribers[s].run = "r1"
    /\ Len(subscribers[s].chan) >= 3
    /\ subscribers[s].chan[1] = RunStatus("running")
    /\ \A i \in 1..Len(subscribers[s].chan) : subscribers[s].chan[i] # RunStatus("completed")
    /\ runs["r1"].status = "completed"
    /\ runs["r2"].status = "completed"

\* the step in which the scheduler of execution e writes its last run status
TerminalStep(e) == execs[e].phase \in {"scheduled", "active"} /\ execs'[e].phase = "done"

\* C21: the step in which an execution makes its terminal transition leaves
\* no run token and no model token of its run in the registry, and it
\* removes no token that belongs to another execution that is still active.
C21_CleanupOnTerminal ==
  [][\A e \in ExecIds :
       TerminalStep(e) =>
         LET r == execs[e].run
         IN /\ runCancellations'[r] = 0
            /\ \A m \in Cand : modelCancellations'[r][m] = 0
            /\ \A d \in ExecIds \ {e} :
                 execs[d].phase = "active" =>
                   /\ runCancellations[execs[d].run] = d => runCancellations'[execs[d].run] = d
                   /\ \A m \in Cand :
                        modelCancellations[execs[d].run][m] = d
                          => modelCancellations'[execs[d].run][m] = d]_vars

RECURSIVE Sum(_)
Sum(seq) == IF seq = <<>> THEN 0 ELSE seq[1] + Sum(Tail(seq))
IsPrefix(a, b) == Len(a) <= Len(b) /\ a = SubSeq(b, 1, Len(a))

\* attempts whose request has been sent
Attempts == retry.attempt + (IF retry.sleeping THEN 0 ELSE 1)

\* C22: a call of withRetry makes at most 4 attempts; the delays it sleeps
\* are 1 s, 2 s and 4 s in this order, 7 s at most in all; when the message
\* of the first failure contains 401, 403 or 404 the call has made one
\* attempt and slept no delay; every failure but the last was followed by a
\* delay; and the error thrown to the caller is that of the last attempt.
C22_RetryPolicy ==
  /\ Attempts <= 4
  /\ IsPrefix(retry.delays, <<1000, 2000, 4000>>)
  /\ Sum(retry.delays) <= 7000
  /\ (retry.errors # <<>> /\ NonRetriable(retry.errors[1])) =>
       /\ retry.outcome = "thrown"
       /\ Len(retry.errors) = 1 /\ retry.attempt = 0 /\ retry.delays = <<>>
  /\ Len(retry.delays) = retry.attempt + (IF retry.sleeping THEN 1 ELSE 0)
  /\ retry.outcome = "thrown" =>
       /\ retry.thrown = retry.errors[Len(retry.errors)]
       /\ Len(retry.errors) = retry.attempt + 1
       /\ NonRetriable(retry.thrown) \/ retry.attempt = maxRetries
  /\ retry.outcome = "returned" => Len(retry.errors) = retry.attempt

\* the fourth attempt failed after delays of 1 s, 2 s and 4 s and its error was thrown
C22_Witness ==
  /\ retry.outcome = "thrown"
  /\ retry.delays = <<1000, 2000, 4000>>
  /\ Len(retry.errors) = 4
  /\ retry.thrown = Msg(<<"4", "0", "0", "1">>)
  /\ retry.errors[1] = Msg(<<"5", "0", "0">>)

\* C23: when the response parses as JSON, pass is true exactly when verdict
\* is PASS, the stored score is the score member whenever the response has
\* one, the value 0 and values contradicting the verdict included, and the
\* default of 100 for pass and 0 otherwise is stored only when it has none
\* (a member that is null counts as none).
C23_JsonVerdict ==
  (judged.given /\ judged.resp.parsed.kind # "SyntaxError") =>
    LET o == judged.resp.parsed
    IN /\ judged.pass = (o.verdict = "PASS")
       /\ o.score \notin {Undefined, Null} => judged.score = o.score
       /\ o.score \in {Undefined, Null} => judged.score = Num(IF judged.pass THEN 100 ELSE 0)

\* text contains word with no word character before it and none after it
ContainsWord(text, word) ==
  \E i \in 0..(Len(text) - Len(word)) :
    /\ SubSeq(text, i + 1, i + Len(word)) = word
    /\ i = 0 \/ ~IsWordChar(SubSeq(text, i, i))
    /\ i + Len(word) = Len(text) \/ ~IsWordChar(SubSeq(text, i + Len(word) + 1, i + Len(word) + 1))
StartsWith(text, word) == Len(text) >= Len(word) /\ SubSeq(text, 1, Len(word)) = word
StartsWithWord(text, word) ==
  /\ StartsWith(text, word)
  /\ Len(text) = Len(word) \/ ~IsWordChar(SubSeq(text, Len(word) + 1, Len(word) + 1))
First200(text) == IF Len(text) <= 200 THEN text ELSE SubSeq(text, 1, 200)

\* what the fallback stores and publishes, given whether the response passes
FallbackStores(pass) ==
  /\ judged.pass = pass
  /\ judged.score = Num(IF pass THEN 100 ELSE 0)
  /\ judged.reasoning = "Simple verdict: " \o (IF pass THEN "PASS" ELSE "FAIL")
                          \o ". Full response: " \o First200(judged.resp.text)
  /\ judged.status = "completed"
  /\ judged.event = "judge_done"

\* C24: for a response that does not parse as JSON, pass holds exactly when
\* the upper-cased response contains the word PASS or starts with YES, and
\* does not contain the word FAIL; score is 100 on pass and 0 otherwise;
\* reasoning is 'Simple verdict: PASS' or 'Simple verdict: FAIL' followed by
\* the first 200 characters of the response; the result becomes completed.
C24_TextualFallback ==
  (judged.given /\ judged.resp.parsed.kind = "SyntaxError") =>
    LET upper == toUpperCase(judged.resp.text)
    IN FallbackStores((ContainsWord(upper, "PASS") \/ StartsWith(upper, "YES"))
                        /\ ~ContainsWord(upper, "FAIL"))

\* C24 as amended: the response is trimmed before it is upper-cased, and it
\* passes by YES only when it starts with the word YES, that is YES followed
\* by no word character.
C24_FallbackOnTrimmedWords ==
  (judged.given /\ judged.resp.parsed.kind = "SyntaxError") =>
    LET upper == toUpperCase(Trim(judged.resp.text))
    IN FallbackStores((ContainsWord(upper, "PASS") \/ StartsWithWord(upper, "YES"))
                        /\ ~ContainsWord(upper, "FAIL"))

\* a response that starts with YES but not with the word YES was judged FAIL
C24_Witness ==
  /\ judged.given
  /\ judged.resp = Plain("yesterday ")
  /\ ~judged.pass
  /\ judged.status = "completed"

\* position in the worker's log of its model_started for the problem at index k (0: none)
StartedAt(e, m, k) ==
  LET log == workers[e][m].log
      hits == {i \in 1..Len(log) : log[i].type = "model_started" /\ log[i].problem = k}
  IN IF hits = {} THEN 0 ELSE CHOOSE i \in hits : \A j \in hits : i <= j

\* C25: a worker inserts the row and publishes model_started for a problem
\* only after it has done so for every problem of the set with a smaller
\* created_at.
C25_CreatedAtOrder ==
  \A e \in ExecIds, m \in Cand, k, l \in 1..Len(Problems) :
    (/\ Started(e)
     /\ k <= Len(execs[e].problems) /\ l <= Len(execs[e].problems)
     /\ problemCreatedAt[execs[e].problems[k].id] < problemCreatedAt[execs[e].problems[l].id]
     /\ StartedAt(e, m, l) # 0)
      => /\ StartedAt(e, m, k) # 0
         /\ StartedAt(e, m, k) < StartedAt(e, m, l)
         /\ Exists(<<e, m, k>>)

\* the rows of a worker whose work is outstanding: a pending row, or the
\* manual row of an html problem whose candidate output is not yet stored
Outstanding(e, m) ==
  {k \in 1..Len(Problems) :
     \/ rows[<<e, m, k>>].status = "pending"
     \/ rows[<<e, m, k>>].status = "manual" /\ ~rows[<<e, m, k>>].output}

Suspended(e, m) == execs[e].phase = "active" /\ Processing(workers[e][m])

AllProcessed(e, m) ==
  /\ workers[e][m].pc = "finished"
  /\ \A k \in 1..Len(execs[e].problems) :
       rows[<<e, m, k>>].status \in {"completed", "manual", "error"}
  /\ Outstanding(e, m) = {}

\* C26: the workers of one run do not block each other: once both are
\* started, the worker of m2 gets every one of its problems to a terminal
\* RunResult even if a call of m1's worker never returns, and no worker has
\* more than one problem in flight.
C26_WorkersDoNotBlock ==
  /\ [](\A e \in ExecIds, m \in Cand : Cardinality(Outstanding(e, m)) <= 1)
  /\ \A e \in ExecIds :
       (Suspended(e, "m1") /\ Suspended(e, "m2")) ~> AllProcessed(e, "m2")

C26_Witness ==
  \E e \in ExecIds :
     /\ Suspended(e, "m1") /\ workers[e]["m1"].idx = 1
     /\ AllProcessed(e, "m2")
     /\ Len(execs[e].problems) = Len(Problems)

\* the executions of run r whose scheduler has been accepted and has not yet
\* gone through the tail after Promise.allSettled
ActiveExecutions(r) ==
  {e \in ExecIds : execs[e].run = r /\ execs[e].phase \in {"scheduled", "active"}}

\* C27: at most one scheduler execution is active per run: execute is not
\* accepted for a run while the workers of an earlier execute of that run
\* have not all finished.
C27_OneActiveExecution ==
  \A r \in RunIds : Cardinality(ActiveExecutions(r)) <= 1

\* the candidate output of the html problem is stored and the row awaits its review
AwaitsReview(key) == rows[key].status = "manual" /\ rows[key].output

\* C28: cancel_run and cancel_model leave the status of a RunResult whose
\* candidate output was already produced: an html row with status manual
\* and its output stored is never marked cancelled.
C28_CancelKeepsProducedRows ==
  [][\A key \in RowKeys : AwaitsReview(key) => rows'[key].status # "cancelled"]_vars

RECURSIVE Concat(_)
Concat(ds) == IF ds = <<>> THEN "" ELSE Head(ds) \o Concat(Tail(ds))

\* C29: when a streaming candidate call succeeds, the deltas of its
\* candidate_token events, concatenated in order, are the text of
\* candidate_done (html_candidate_done) and the stored output, also when
\* the call was retried after a stream broke part-way.
C29_DeltasMakeOutput ==
  streamed.done =>
    /\ Concat(streamed.deltas) = streamed.text
    /\ streamed.text = streamed.output

Accepted(e) == execs[e].phase \in {"scheduled", "active"}

Terminated(e) ==
  /\ execs[e].phase = "done"
  /\ runs[execs[e].run].status \in {"completed", "cancelled", "error"}
  /\ \A key \in RowKeys : RowRun(key) = execs[e].run => rows[key].status # "pending"

\* C30: every accepted execute terminates when every adapter and judge
\* call returns or fails: its scheduler finishes, the run is completed,
\* cancelled or error, and no RunResult of the run is left pending,
\* whatever cancels are interleaved.
C30_ExecuteTerminates ==
  \A e \in ExecIds : Accepted(e) ~> Terminated(e)

C30_Witness ==
  \E e \in ExecIds :
     /\ Terminated(e)
     /\ runs[execs[e].run].cancelled_at
     /\ \E key \in RowKeys : key[1] = e /\ rows[key].status # "none"

====
